---- MODULE Spec2Model ----
(***************************************************************************)
(* Model of src/datasets/wikihow.py: the WikihowDataset flattener          *)
(* (_process_data) and the __getitem__ methods of WikihowDiscourse,        *)
(* WikihowTriplet and WikihowTPK.                                          *)
(*                                                                         *)
(* Text is a sequence of atoms: one-character strings, except that each    *)
(* structural marker registered with tokenizer.add_tokens is one atom.     *)
(* The atom "W" abbreviates a long stretch of text (see TokenCount).       *)
(***************************************************************************)
EXTENDS Integers, Sequences, FiniteSets, TLC

\* ------------------------------------------------------------------ bounds
\* number of corpus entries in the slice range(start_idx, end_idx)
MaxDocs == 3
\* window sizes config.data_params.k ranges over 1..MaxK
MaxK == 3
\* raw outputs of the random generator range over 0..MaxWord-1
MaxWord == 6
\* number of states of the process-wide random generator
RngMod == 4
\* seeds passed to the constructor range over 1..MaxSeed
MaxSeed == 2

\* --------------------------------------------------------------- constants
\* len(self.tokenizer(s)['input_ids']) < 1024
MaxTokens == 1024

VARIABLES
    pc,              \* position of the program
    cls,             \* class of the dataset instance
    k,               \* config.data_params.k
    one_hot,         \* label configuration requested by the caller
    seed,            \* seed argument of the constructor
    attrs,           \* names of the attributes set on the instance
    doc_idx,         \* number of corpus entries consumed by the loop of _process_data
    title,           \* doc['title'] of the entry being flattened
    method2steps,    \* groups of the entry still to be flattened, in dict order
    doc_counter,     \* doc_counter of _process_data
    processed_data,  \* self.processed_data
    call,            \* the last __getitem__ call: arguments, locals, reads, outcome
    rng,             \* state of the random generator of this process
    peer_rng,        \* state of the random generator of a second process
    peer_call        \* the same __getitem__ call made in the second process

vars == <<pc, cls, k, one_hot, seed, attrs, doc_idx, title, method2steps,
          doc_counter, processed_data, call, rng, peer_rng, peer_call>>

\* ------------------------------------------------------------ str helpers
\* s.startswith(p)
StartsWith(s, p) == Len(s) >= Len(p) /\ SubSeq(s, 1, Len(p)) = p

\* s.endswith(p)
EndsWith(s, p) == Len(s) >= Len(p) /\ SubSeq(s, Len(s) - Len(p) + 1, Len(s)) = p

\* s[n:]
From(s, n) == SubSeq(s, n + 1, Len(s))

\* s.split(sep): cut at each occurrence of sep, scanning left to right
RECURSIVE SplitAcc(_, _, _)
SplitAcc(s, sep, cur) ==
    IF s = <<>> THEN <<cur>>
    ELSE IF StartsWith(s, sep) THEN <<cur>> \o SplitAcc(From(s, Len(sep)), sep, <<>>)
    ELSE SplitAcc(Tail(s), sep, Append(cur, Head(s)))

Split(s, sep) == SplitAcc(s, sep, <<>>)

\* s.replace(old, new): every non-overlapping occurrence, scanning left to right
RECURSIVE Replace(_, _, _)
Replace(s, old, new) ==
    IF s = <<>> THEN <<>>
    ELSE IF StartsWith(s, old) THEN new \o Replace(From(s, Len(old)), old, new)
    ELSE <<Head(s)>> \o Replace(Tail(s), old, new)

\* s[:-1]
DropLast(s) == IF s = <<>> THEN <<>> ELSE SubSeq(s, 1, Len(s) - 1)

\* ------------------------------------------------------------- _set_tokenizer
section_ids == <<"[ TITLE ]", "[ METHOD ]", "[ STEP ]">>

cl_eos_str == <<" ", ".", " ">>

split_pattern == <<".", " ", " ">>

\* the tokenizer is a library: a deterministic count of the tokens of a text.
\* Blanks join the token that follows them, every other atom is one token,
\* the delimiter " . " counts through its period, and "W" stands for a stretch
\* of text of 1021 tokens.
RECURSIVE TokenCount(_)
TokenCount(s) ==
    IF s = <<>> THEN 0
    ELSE (IF Head(s) = "W" THEN 1021 ELSE IF Head(s) = " " THEN 0 ELSE 1)
         + TokenCount(Tail(s))

\* ------------------------------------------------------------ _process_data
\* method2steps[v['section']].append(v): groups in order of first appearance,
\* steps in their original order inside each group
RECURSIVE GroupBySection(_, _)
GroupBySection(steps, groups) ==
    IF steps = <<>> THEN groups
    ELSE LET v == Head(steps)
             hit == {i \in 1..Len(groups) : groups[i].method_name = v.section}
         IN  IF hit = {}
             THEN GroupBySection(Tail(steps),
                      Append(groups, [method_name |-> v.section, steps |-> <<v>>]))
             ELSE LET i == CHOOSE j \in hit : TRUE
                  IN  GroupBySection(Tail(steps),
                          [groups EXCEPT ![i].steps = Append(@, v)])

\* the sentences of step['text']: fragments, each suffixed with the delimiter,
\* a doubled delimiter of the last one collapsed
StepSentences(text) ==
    LET frags == Split(text, split_pattern)
        sentences == [i \in 1..Len(frags) |-> frags[i] \o cl_eos_str]
        n == Len(sentences)
    IN  IF EndsWith(sentences[n], <<".", " ", ".", " ">>)
        THEN SubSeq(sentences, 1, n - 1)
             \o <<Replace(sentences[n], <<".", " ", ".", " ">>, cl_eos_str)>>
        ELSE SubSeq(sentences, 1, n)

\* directions of step number step_num (zero-based)
Directions(step_num, step) ==
    <<section_ids[3], " ", ToString(step_num), " ">> \o DropLast(step.summary) \o cl_eos_str

RECURSIVE StepsSentences(_, _)
StepsSentences(steps, step_num) ==
    IF steps = <<>> THEN <<>>
    ELSE <<Directions(step_num, Head(steps))>> \o StepSentences(Head(steps).text)
         \o StepsSentences(Tail(steps), step_num + 1)

\* all_sentences of one (document, method) group
AllSentences(doc_title, method_name, steps) ==
    << <<section_ids[1], " ">> \o doc_title \o cl_eos_str,
       <<section_ids[2], " ">> \o method_name \o cl_eos_str >>
    \o StepsSentences(steps, 0)

\* variant: a sentence of exactly the threshold passes the filter
FitsBudget_Inclusive(all_sentences) ==
    \A i \in 1..Len(all_sentences) : TokenCount(all_sentences[i]) <= MaxTokens

\* the length filter: every sentence of the group is under the threshold
FitsBudget(all_sentences) ==
    \A i \in 1..Len(all_sentences) : TokenCount(all_sentences[i]) < MaxTokens

\* the sentences that get a record: not empty, not the bare delimiter
KeptSentence(sentence) == sentence # <<>> /\ sentence # cl_eos_str

\* doc_info of one group, total_doc_sentences back-filled
RECURSIVE DocInfoAcc(_, _, _)
DocInfoAcc(all_sentences, doc_info, sentence_counter) ==
    IF all_sentences = <<>>
    THEN [i \in 1..Len(doc_info) |->
             [sentence |-> doc_info[i].sentence,
              sentence_id |-> doc_info[i].sentence_id,
              doc_id |-> doc_info[i].doc_id,
              total_doc_sentences |-> sentence_counter]]
    ELSE IF KeptSentence(Head(all_sentences))
         THEN DocInfoAcc(Tail(all_sentences),
                  Append(doc_info, [sentence |-> Head(all_sentences),
                                    sentence_id |-> sentence_counter,
                                    doc_id |-> doc_counter]),
                  sentence_counter + 1)
         ELSE DocInfoAcc(Tail(all_sentences), doc_info, sentence_counter)

\* variant: a dropped sentence still consumes a sentence_id
RECURSIVE DocInfoAcc_CountsDropped(_, _, _)
DocInfoAcc_CountsDropped(all_sentences, doc_info, sentence_counter) ==
    IF all_sentences = <<>>
    THEN [i \in 1..Len(doc_info) |->
             [sentence |-> doc_info[i].sentence,
              sentence_id |-> doc_info[i].sentence_id,
              doc_id |-> doc_info[i].doc_id,
              total_doc_sentences |-> sentence_counter]]
    ELSE DocInfoAcc_CountsDropped(Tail(all_sentences),
             IF KeptSentence(Head(all_sentences))
             THEN Append(doc_info, [sentence |-> Head(all_sentences),
                                    sentence_id |-> sentence_counter,
                                    doc_id |-> doc_counter])
             ELSE doc_info,
             sentence_counter + 1)

DocInfo_CountsDropped(all_sentences) == DocInfoAcc_CountsDropped(all_sentences, <<>>, 0)

DocInfo(all_sentences) == DocInfoAcc(all_sentences, <<>>, 0)

\* ------------------------------------------------------------------ corpus
Step(section, summary, text) == [section |-> section, summary |-> summary, text |-> text]

\* entries all_dataset[doc_id] can hold: {title, steps: {key: {section, summary, text}}}
DocSamples ==
    { \* one method, two steps, a body of two fragments: 7 records
      [title |-> <<"T">>,
       steps |-> << Step(<<"m">>, <<"s", ".">>, <<"a", ".", " ", " ", "b", ".">>),
                    Step(<<"m">>, <<"s", ".">>, <<"a">>) >>],
      \* two interleaved methods, empty and delimiter-only fragments: 5 + 3 records
      [title |-> <<"T">>,
       steps |-> << Step(<<"m">>, <<"s", ".">>, <<>>),
                    Step(<<"n">>, <<"s", ".">>, <<".">>),
                    Step(<<"m">>, <<>>, <<"a", ".", " ", " ">>) >>],
      \* a sentence of 1023 tokens (kept) and one of 1024 tokens (group discarded)
      [title |-> <<"U">>,
       steps |-> << Step(<<"m">>, <<"s", ".">>, <<"W", "a">>),
                    Step(<<"n">>, <<"s", ".">>, <<"W", "a", "b">>) >>],
      \* an entry without steps
      [title |-> <<"V">>, steps |-> <<>>] }

\* --------------------------------------------------------------- instance
Classes == {"WikihowDiscourse", "WikihowTriplet", "WikihowTPK"}

\* attributes assigned by WikihowDataset.__init__ and _set_tokenizer
BaseAttrs ==
    {"train", "all_dataset", "config", "start_idx", "end_idx", "seed",
     "tokenizer_name", "tokenizer", "end_token", "max_length", "section_ids",
     "section_names", "cl_eos_str", "special_tokens", "cl_eos_id", "processed_data"}

\* attributes a subclass constructor adds after super().__init__ returns
SubclassAttrs(c) == IF c = "WikihowTriplet" THEN {"k"} ELSE {}

NoCall == [method |-> "none"]

\* ------------------------------------------------------------------ actions
\* for doc_id in range(start_idx, end_idx): doc = all_dataset[doc_id], grouped by section
LoadDoc ==
    /\ pc = "flatten"
    /\ method2steps = <<>>
    /\ doc_idx < MaxDocs
    /\ \E doc \in DocSamples :
          /\ title' = doc.title
          /\ method2steps' = GroupBySection(doc.steps, <<>>)
    /\ doc_idx' = doc_idx + 1
    /\ UNCHANGED <<pc, cls, k, one_hot, seed, attrs, doc_counter, processed_data,
                   call, rng, peer_rng, peer_call>>

\* one iteration of "for method_name, steps in method2steps.items()"
ProcessMethod ==
    /\ pc = "flatten"
    /\ method2steps # <<>>
    /\ LET unit == Head(method2steps)
           all_sentences == AllSentences(title, unit.method_name, unit.steps)
       IN  IF ~FitsBudget(all_sentences)
           THEN UNCHANGED <<processed_data, doc_counter>>
           ELSE /\ processed_data' = processed_data \o DocInfo(all_sentences)
                /\ doc_counter' = doc_counter + 1
    /\ method2steps' = Tail(method2steps)
    /\ UNCHANGED <<pc, cls, k, one_hot, seed, attrs, doc_idx, title,
                   call, rng, peer_rng, peer_call>>

\* the two prints that end _process_data read processed_data[0] and [10];
\* then the constructors return
FinishInit ==
    /\ pc = "flatten"
    /\ method2steps = <<>>
    /\ doc_idx = MaxDocs
    /\ IF Len(processed_data) > 10
       THEN /\ pc' = "ready"
            /\ attrs' = attrs \cup SubclassAttrs(cls)
       ELSE /\ pc' = "IndexError"
            /\ UNCHANGED attrs
    /\ UNCHANGED <<cls, k, one_hot, seed, doc_idx, title, method2steps,
                   doc_counter, processed_data, call, rng, peer_rng, peer_call>>

\* ---------------------------------------------------------------- list reads
Min(a, b) == IF a < b THEN a ELSE b

Max(a, b) == IF a > b THEN a ELSE b

\* processed_data[pos] raises IndexError outside -len..len-1
InList(data, pos) == -Len(data) <= pos /\ pos < Len(data)

\* processed_data[pos]; a negative pos counts from the end of the list
Item(data, pos) == data[IF pos >= 0 THEN pos + 1 ELSE Len(data) + pos + 1]

\* the reads of a call that attempts the positions in order: it stops at the
\* first position that raises
RECURSIVE ReadsOf(_, _)
ReadsOf(data, positions) ==
    IF positions = <<>> THEN <<>>
    ELSE IF InList(data, Head(positions))
         THEN <<Head(positions)>> \o ReadsOf(data, Tail(positions))
         ELSE <<Head(positions)>>

AllInList(data, positions) == \A i \in 1..Len(positions) : InList(data, positions[i])

\* variant: __len__ returns the whole length of the list
DatasetLen_Whole(data) == Len(data)

\* WikihowDataset.__len__
DatasetLen(data) == Len(data) - 1

\* ------------------------------------------------------------------- random
\* random.randint(0, 1) from one raw output of the generator
RandInt01(word) == word % 2

\* random.choice(seq) from one raw output of the generator (seq not empty)
Choice(seq, word) == seq[(word % Len(seq)) + 1]

\* nums.remove(x): the first occurrence is removed
RemoveFirst(seq, x) ==
    LET i == CHOOSE j \in 1..Len(seq) : seq[j] = x /\ \A h \in 1..(j - 1) : seq[h] # x
    IN  SubSeq(seq, 1, i - 1) \o SubSeq(seq, i + 1, Len(seq))

\* the generator is deterministic: its state fixes every later output
RngStep(s) == (s + 1) % RngMod

RECURSIVE RngAfter(_, _)
RngAfter(s, draws) == IF draws = 0 THEN s ELSE RngAfter(RngStep(s), draws - 1)

\* the n-th raw output drawn from state s (n >= 1)
RngWord(s, n) == RngAfter(s, n)

\* the record of a call that raised
Raised(method, index, error, reads, draws, locals) ==
    [method |-> method, index |-> index, status |-> error, reads |-> reads,
     draws |-> draws, locals |-> locals, result |-> <<>>]

\* the record of a call that returned
Returned(method, index, reads, draws, locals, result) ==
    [method |-> method, index |-> index, status |-> "ok", reads |-> reads,
     draws |-> draws, locals |-> locals, result |-> result]

\* ------------------------------------------------- WikihowDiscourse.__getitem__
\* variant: tp1 is not clamped to the last sentence of the unit
WindowTp1_Unclamped(utterance, kk) == utterance.sentence_id + kk

\* tp1 = min(total_doc_sentences - 1, sentence_id + k)
WindowTp1(utterance, kk) ==
    Min(utterance.total_doc_sentences - 1, utterance.sentence_id + kk)

\* t = max(0, tp1 - k)
WindowT(utterance, kk) == Max(0, WindowTp1(utterance, kk) - kk)

DiscourseGetItem(data, has_attrs, one_hot_labels, kk, index, word) ==
    LET m == "WikihowDiscourse"
        label == RandInt01(word)
        utterance == Item(data, index)
        tp1 == WindowTp1(utterance, kk)
        t == WindowT(utterance, kk)
        pos_t == index + (t - utterance.sentence_id)
        pos_tp1 == index + (tp1 - utterance.sentence_id)
        y_t == Item(data, pos_t)
        y_tp1 == Item(data, pos_tp1)
        locals == [label |-> label, t |-> t, tp1 |-> tp1,
                   pos_t |-> pos_t, pos_tp1 |-> pos_tp1]
        positions == <<index, pos_t, pos_tp1>>
    IN  IF ~InList(data, index)
        THEN Raised(m, index, "IndexError", <<index>>, 1, [label |-> label])
        ELSE IF ~AllInList(data, positions)
        THEN Raised(m, index, "IndexError", ReadsOf(data, positions), 1, locals)
        ELSE IF y_t.doc_id # y_tp1.doc_id
        THEN Raised(m, index, "AssertionError", positions, 1, locals)
        ELSE IF "one_hot_labels" \notin has_attrs
        THEN Raised(m, index, "AttributeError", positions, 1, locals)
        ELSE Returned(m, index, positions, 1, locals,
                 [y_t |-> IF label # 0 THEN y_t.sentence ELSE y_tp1.sentence,
                  y_tp1 |-> IF label # 0 THEN y_tp1.sentence ELSE y_t.sentence,
                  label |-> IF one_hot_labels
                            THEN [i \in 0..1 |-> IF i = label THEN 1 ELSE 0]
                            ELSE label,
                  idx |-> index,
                  t |-> pos_t,
                  tp1 |-> pos_tp1])

\* --------------------------------------------------- WikihowTriplet.__getitem__
\* variant: the first record of a unit is advanced by one only
Advance_ByOne(sentence_num) == IF sentence_num = 0 \/ sentence_num = 1 THEN 1 ELSE 0

\* "if sentence_num == 0: index += 2" and "if sentence_num == 1: index += 1"
Advance(sentence_num) ==
    (IF sentence_num = 0 THEN 2 ELSE 0) + (IF sentence_num = 1 THEN 1 ELSE 0)

TripletGetItem(data, index, word1, word2) ==
    LET m == "WikihowTriplet"
        first == Item(data, index)
        index2 == index + Advance(first.sentence_id)
        utterance == Item(data, index2)
        T == utterance.sentence_id
        nums == [i \in 1..T |-> i - 1]
        c1 == Choice(nums, word1)
        rest == RemoveFirst(nums, c1)
        c2 == Choice(rest, word2)
        t1 == IF c2 < c1 THEN c2 ELSE c1
        t2 == IF c2 < c1 THEN c1 ELSE c2
        positions == <<index, index2, index2 - T + t1, index2 - T + t2, index2>>
        locals == [index |-> index2, T |-> T, t1 |-> t1, t2 |-> t2,
                   pos_0 |-> index2 - T + t1, pos_t |-> index2 - T + t2, pos_T |-> index2]
    IN  IF ~InList(data, index)
        THEN Raised(m, index, "IndexError", <<index>>, 0, <<>>)
        ELSE IF ~InList(data, index2)
        THEN Raised(m, index, "IndexError", <<index, index2>>, 0, [index |-> index2])
        ELSE IF T = 0
        THEN Raised(m, index, "IndexError", <<index, index2>>, 0, [index |-> index2, T |-> T])
        ELSE IF T = 1
        THEN Raised(m, index, "IndexError", <<index, index2>>, 1, [index |-> index2, T |-> T])
        ELSE IF ~(t1 < t2 /\ t2 < T)
        THEN Raised(m, index, "AssertionError", <<index, index2>>, 2, locals)
        ELSE IF ~AllInList(data, positions)
        THEN Raised(m, index, "IndexError", ReadsOf(data, positions), 2, locals)
        ELSE Returned(m, index, positions, 2, locals,
                 [y_0 |-> Item(data, index2 - T + t1).sentence,
                  y_t |-> Item(data, index2 - T + t2).sentence,
                  y_T |-> Item(data, index2).sentence,
                  t_ |-> t1,
                  t |-> t2,
                  T |-> T,
                  total_t |-> utterance.total_doc_sentences])

\* ------------------------------------------------------- WikihowTPK.__getitem__
\* variant: the lag is clamped at the start of the list only, not of the unit
LagPos_AnyUnit(data, index, lag) == IF index - lag < 0 THEN index ELSE index - lag

\* the position y_tm{lag} is taken from: index - lag inside the unit, else index
LagPos(data, index, lag) ==
    IF index - lag < 0 \/ Item(data, index).doc_id # Item(data, index - lag).doc_id
    THEN index
    ELSE index - lag

\* the positions the lag expression reads: the test stops at "index - lag < 0"
LagReads(data, index, lag) ==
    IF index - lag < 0 THEN <<index>>
    ELSE <<index, index - lag, LagPos(data, index, lag)>>

\* variant: the index is never stepped back
StepBack_Never(data, index) == index

\* k == 1: the index after "if the next record is of another unit: index -= 1"
StepBack(data, index) ==
    IF Item(data, index).doc_id # Item(data, index + 1).doc_id
    THEN index - 1
    ELSE index

TPKGetItem(data, kk, index) ==
    LET m == "WikihowTPK"
        \* k == 1
        stepped == StepBack(data, index)
        \* k > 1
        utterance == Item(data, index)
        tp1 == WindowTp1(utterance, kk)
        t == WindowT(utterance, kk)
        \* both
        index2 == IF kk = 1 THEN stepped ELSE index
        pos_t == IF kk = 1 THEN index2 ELSE index + (t - utterance.sentence_id)
        pos_tp1 == IF kk = 1 THEN index2 + 1 ELSE index + (tp1 - utterance.sentence_id)
        head == IF kk = 1 THEN <<index2, index2 + 1, index2, index2>>
                ELSE <<pos_t, pos_tp1, pos_t>>
        positions == (IF kk = 1 THEN <<index, index + 1>> ELSE <<index>>) \o head
                     \o LagReads(data, index2, 1) \o LagReads(data, index2, 2)
                     \o LagReads(data, index2, 3)
        pos_tm == [lag \in 1..3 |-> LagPos(data, index2, lag)]
        locals == [index |-> index2, pos_t |-> pos_t, pos_tp1 |-> pos_tp1,
                   pos_tm |-> pos_tm,
                   t |-> <<Item(data, pos_t).sentence_id,
                           Item(data, index2).total_doc_sentences>>]
    IN  IF kk = 1 /\ ~AllInList(data, <<index, index + 1>>)
        THEN Raised(m, index, "IndexError", ReadsOf(data, <<index, index + 1>>), 0, <<>>)
        ELSE IF kk # 1 /\ ~InList(data, index)
        THEN Raised(m, index, "IndexError", <<index>>, 0, <<>>)
        ELSE IF ~AllInList(data, head)
        THEN Raised(m, index, "IndexError",
                 ReadsOf(data, (IF kk = 1 THEN <<index, index + 1>> ELSE <<index>>) \o head),
                 0, [index |-> index2, pos_t |-> pos_t, pos_tp1 |-> pos_tp1])
        ELSE Returned(m, index, positions, 0, locals,
                 [y_t |-> Item(data, pos_t).sentence,
                  y_tm1 |-> Item(data, pos_tm[1]).sentence,
                  y_tm2 |-> Item(data, pos_tm[2]).sentence,
                  y_tm3 |-> Item(data, pos_tm[3]).sentence,
                  y_tpk |-> Item(data, pos_tp1).sentence])

\* -------------------------------------------------------------- __getitem__
\* the loader asks for the item at an index below __len__()
Indices == 0..(DatasetLen(processed_data) - 1)

\* the raw outputs the generator can give: its state is whatever the process left
Words == 0..(MaxWord - 1)

Discourse_getitem ==
    /\ pc = "ready"
    /\ cls = "WikihowDiscourse"
    /\ \E index \in Indices, word \in Words :
          call' = DiscourseGetItem(processed_data, attrs, one_hot, k, index, word)
    /\ pc' = "returned"
    /\ UNCHANGED <<cls, k, one_hot, seed, attrs, doc_idx, title, method2steps,
                   doc_counter, processed_data, rng, peer_rng, peer_call>>

Triplet_getitem ==
    /\ pc = "ready"
    /\ cls = "WikihowTriplet"
    /\ \E index \in Indices, word1 \in Words, word2 \in Words :
          call' = TripletGetItem(processed_data, index, word1, word2)
    /\ pc' = "returned"
    /\ UNCHANGED <<cls, k, one_hot, seed, attrs, doc_idx, title, method2steps,
                   doc_counter, processed_data, rng, peer_rng, peer_call>>

TPK_getitem ==
    /\ pc = "ready"
    /\ cls = "WikihowTPK"
    /\ \E index \in Indices :
          call' = TPKGetItem(processed_data, k, index)
    /\ pc' = "returned"
    /\ UNCHANGED <<cls, k, one_hot, seed, attrs, doc_idx, title, method2steps,
                   doc_counter, processed_data, rng, peer_rng, peer_call>>

\* the caller takes the item (or the exception) and asks again
NextItem ==
    /\ pc = "returned"
    /\ pc' = "ready"
    /\ call' = NoCall
    /\ peer_call' = NoCall
    /\ UNCHANGED <<cls, k, one_hot, seed, attrs, doc_idx, title, method2steps,
                   doc_counter, processed_data, rng, peer_rng>>

\* ------------------------------------------------------------ specification
\* entry of _process_data: the attributes of lines 24-34 are set, the lists empty
InitWith(seeds, rngs) ==
    /\ pc = "flatten"
    /\ cls \in Classes
    /\ k \in 1..MaxK
    /\ one_hot \in BOOLEAN
    /\ seed \in seeds
    /\ attrs = BaseAttrs
    /\ doc_idx = 0
    /\ title = <<>>
    /\ method2steps = <<>>
    /\ doc_counter = 0
    /\ processed_data = <<>>
    /\ call = NoCall
    /\ rng \in rngs
    /\ peer_rng \in rngs
    /\ peer_call = NoCall

\* one process: seed has its default, the generator is left out of the state
\* (each draw takes any of its outputs)
Init == InitWith({1}, {0})

Next ==
    \/ LoadDoc
    \/ ProcessMethod
    \/ FinishInit
    \/ Discourse_getitem
    \/ Triplet_getitem
    \/ TPK_getitem
    \/ NextItem

Spec == Init /\ [][Next]_vars

\* ------------------------------------------ two processes, the same queries
\* the item a process whose generator is in state gen gets at index
ItemFrom(gen, index) ==
    CASE cls = "WikihowDiscourse" ->
             DiscourseGetItem(processed_data, attrs, one_hot, k, index, RngWord(gen, 1))
      [] cls = "WikihowTriplet" ->
             TripletGetItem(processed_data, index, RngWord(gen, 1), RngWord(gen, 2))
      [] cls = "WikihowTPK" ->
             TPKGetItem(processed_data, k, index)

\* two processes built the dataset from the same corpus with the same arguments
\* and ask for the same index; each draws from the generator of its process
Twin_getitem ==
    /\ pc = "ready"
    /\ \E index \in Indices :
          /\ call' = ItemFrom(rng, index)
          /\ peer_call' = ItemFrom(peer_rng, index)
    /\ rng' = RngAfter(rng, call'.draws)
    /\ peer_rng' = RngAfter(peer_rng, peer_call'.draws)
    /\ pc' = "returned"
    /\ UNCHANGED <<cls, k, one_hot, seed, attrs, doc_idx, title, method2steps,
                   doc_counter, processed_data>>

\* the constructor stores seed and never passes it to the generator: each
\* process starts from whatever state its generator was in
InitRepro == InitWith(1..MaxSeed, 0..(RngMod - 1)) /\ k = 1 /\ ~one_hot

NextRepro ==
    \/ LoadDoc
    \/ ProcessMethod
    \/ FinishInit
    \/ Twin_getitem
    \/ NextItem

SpecRepro == InitRepro /\ [][NextRepro]_vars

\* ================================================================== claims
\* the record at zero-based position p of the flat sequence
Rec(p) == processed_data[p + 1]

Positions == 0..(Len(processed_data) - 1)

Built == pc \in {"ready", "returned"}

Called(method) == pc = "returned" /\ call.method = method

\* the positions that hold the records of the unit doc
UnitPositions(doc) == {p \in Positions : Rec(p).doc_id = doc}

Lowest(S) == CHOOSE x \in S : \A y \in S : x <= y

\* C1: once _process_data has finished, the records of one doc_id form one
\* contiguous run, their sentence_id counts 0, 1, ..., n-1 along the run, and
\* each of them has total_doc_sentences = n, the number of records of the unit
C1_UnitsContiguousAndNumbered ==
    Built =>
        \A p \in Positions :
            LET run == UnitPositions(Rec(p).doc_id)
                lo == Lowest(run)
                n == Cardinality(run)
            IN  /\ run = lo..(lo + n - 1)
                /\ Rec(p).sentence_id = p - lo
                /\ Rec(p).total_doc_sentences = n

\* C1 witness: a built dataset of several units in which a delimiter-only
\* sentence was dropped between the directions of step 0 and of step 1
C1_Witness ==
    /\ pc = "ready"
    /\ doc_counter >= 2
    /\ \E p \in Positions :
          /\ p + 1 \in Positions
          /\ Rec(p).sentence = <<"[ STEP ]", " ", "0", " ", "s", " ", ".", " ">>
          /\ Rec(p + 1).sentence = <<"[ STEP ]", " ", "1", " ", " ", ".", " ">>
          /\ Rec(p + 1).doc_id >= 1

\* the group the next iteration of the method loop flattens
PendingSentences ==
    AllSentences(title, Head(method2steps).method_name, Head(method2steps).steps)

TooLong(sentences) == \E i \in 1..Len(sentences) : TokenCount(sentences[i]) >= MaxTokens

\* C2: a group is all-or-nothing. If one of its sentences has 1024 tokens or
\* more, flattening it appends no record and leaves the unit counter; else all
\* its records are appended under the current counter, each sentence under
\* 1024 tokens, and the counter advances by one
C2_UnitAllOrNothing ==
    [][ (pc = "flatten" /\ method2steps # <<>>) =>
          IF TooLong(PendingSentences)
          THEN processed_data' = processed_data /\ doc_counter' = doc_counter
          ELSE /\ doc_counter' = doc_counter + 1
               /\ SubSeq(processed_data', 1, Len(processed_data)) = processed_data
               /\ LET added == (Len(processed_data) + 1)..Len(processed_data')
                  IN  /\ \A i \in added :
                            /\ processed_data'[i].doc_id = doc_counter
                            /\ TokenCount(processed_data'[i].sentence) < MaxTokens
                      /\ [i \in 1..Cardinality(added) |->
                             processed_data'[Len(processed_data) + i].sentence]
                         = SelectSeq(PendingSentences,
                                     LAMBDA x : x # <<>> /\ x # <<" ", ".", " ">>)
    ]_vars

\* C2 witness: an entry was flattened whose first group has a sentence of 1023
\* tokens (the last record) and whose second group, with a sentence of 1024
\* tokens, left nothing behind
C2_Witness ==
    /\ pc = "flatten"
    /\ title = <<"U">>
    /\ method2steps = <<>>
    /\ processed_data # <<>>
    /\ LET last == processed_data[Len(processed_data)]
       IN  /\ TokenCount(last.sentence) = MaxTokens - 1
           /\ last.doc_id = doc_counter - 1

\* C3: the window rule of the pairwise strategy and of the windowed strategy
\* with k > 1: the two resolved positions are in order (t <= tp1), belong to
\* the unit of the record at index, and the same-unit assertion does not fail
C3_WindowInsideUnit ==
    (Called("WikihowDiscourse") \/ (Called("WikihowTPK") /\ k > 1)) =>
        /\ call.status \notin {"IndexError", "AssertionError"}
        /\ call.locals.pos_t \in Positions
        /\ call.locals.pos_tp1 \in Positions
        /\ call.locals.pos_t <= call.locals.pos_tp1
        /\ Rec(call.locals.pos_t).doc_id = Rec(call.index).doc_id
        /\ Rec(call.locals.pos_tp1).doc_id = Rec(call.index).doc_id
        /\ Rec(call.locals.pos_tp1).sentence_id - Rec(call.locals.pos_t).sentence_id <= k

\* C3 witness: a pairwise call with k > 1 at the last record of a unit that is
\* followed by another unit; the window is clamped to the end of the unit
C3_Witness ==
    /\ Called("WikihowDiscourse")
    /\ k > 1
    /\ call.index + 1 \in Positions
    /\ Rec(call.index + 1).doc_id # Rec(call.index).doc_id
    /\ call.locals.pos_tp1 = call.index
    /\ call.locals.pos_t < call.index

\* C4: the triplet strategy returns for every index and every draw, with
\* 0 <= t1 < t2 < T (so T >= 2), and the three records it resolves are of one unit
C4_TripletOrderedInUnit ==
    Called("WikihowTriplet") =>
        /\ call.status = "ok"
        /\ 0 <= call.result.t_
        /\ call.result.t_ < call.result.t
        /\ call.result.t < call.result.T
        /\ call.result.T >= 2
        /\ call.locals.pos_0 = call.locals.pos_T - call.result.T + call.result.t_
        /\ call.locals.pos_t = call.locals.pos_T - call.result.T + call.result.t
        /\ {call.locals.pos_0, call.locals.pos_t, call.locals.pos_T} \subseteq Positions
        /\ Rec(call.locals.pos_0).doc_id = Rec(call.locals.pos_T).doc_id
        /\ Rec(call.locals.pos_t).doc_id = Rec(call.locals.pos_T).doc_id
        /\ call.result.y_0 = Rec(call.locals.pos_0).sentence
        /\ call.result.y_t = Rec(call.locals.pos_t).sentence
        /\ call.result.y_T = Rec(call.locals.pos_T).sentence

\* C4 witness: a triplet call at the first record of a unit that is not the
\* first unit: the index was advanced by 2
C4_Witness ==
    /\ Called("WikihowTriplet")
    /\ call.status = "ok"
    /\ call.index > 0
    /\ Rec(call.index).sentence_id = 0
    /\ call.locals.pos_T = call.index + 2

\* C5: windowed strategy, k = 1: when the record at the (possibly stepped
\* back) index is in a unit of two records or more, y_t and y_tpk are records
\* of one unit and y_tpk is the record right after y_t in sentence_id
C5_AdjacentPair ==
    (Called("WikihowTPK") /\ k = 1) =>
        /\ call.status = "ok"
        /\ call.locals.index \in Positions
        /\ Rec(call.locals.index).total_doc_sentences >= 2 =>
              /\ call.locals.pos_t = call.locals.index
              /\ call.locals.pos_tp1 \in Positions
              /\ Rec(call.locals.pos_tp1).doc_id = Rec(call.locals.pos_t).doc_id
              /\ Rec(call.locals.pos_tp1).sentence_id = Rec(call.locals.pos_t).sentence_id + 1
              /\ call.result.y_t = Rec(call.locals.pos_t).sentence
              /\ call.result.y_tpk = Rec(call.locals.pos_tp1).sentence

\* C5 witness: a k = 1 call at the last record of a unit: the index stepped back
C5_Witness ==
    /\ Called("WikihowTPK")
    /\ k = 1
    /\ call.status = "ok"
    /\ Rec(call.index + 1).doc_id # Rec(call.index).doc_id
    /\ call.locals.index = call.index - 1

\* C6: a pairwise call on a dataset built by the WikihowDiscourse constructor
\* returns a result with the label (scalar or one-hot as configured), the two
\* resolved positions, and the two texts in order for label 1, swapped for 0
C6_PairwiseReturns ==
    Called("WikihowDiscourse") =>
        /\ call.status = "ok"
        /\ call.result.t = call.locals.pos_t
        /\ call.result.tp1 = call.locals.pos_tp1
        /\ call.result.label = (IF one_hot
                                THEN [i \in 0..1 |-> IF i = call.locals.label THEN 1 ELSE 0]
                                ELSE call.locals.label)
        /\ call.locals.label = 1 =>
              /\ call.result.y_t = Rec(call.locals.pos_t).sentence
              /\ call.result.y_tp1 = Rec(call.locals.pos_tp1).sentence
        /\ call.locals.label = 0 =>
              /\ call.result.y_t = Rec(call.locals.pos_tp1).sentence
              /\ call.result.y_tp1 = Rec(call.locals.pos_t).sentence

\* C7: two processes that build the dataset with the same seed over the same
\* corpus and ask for the same indices get the same samples, whatever state
\* the generator of each process was in before the construction
C7_SameSeedSameSamples ==
    pc = "returned" =>
        /\ call.status = peer_call.status
        /\ call.result = peer_call.result

\* the text a windowed result holds for a lag
LagText(result, lag) ==
    CASE lag = 1 -> result.y_tm1
      [] lag = 2 -> result.y_tm2
      [] lag = 3 -> result.y_tm3

\* the index the windowed strategy works from: stepped back by one in k = 1
\* mode when the next record is of another unit
WorkingIndex ==
    IF k = 1 /\ Rec(call.index).doc_id # Rec(call.index + 1).doc_id
    THEN call.index - 1
    ELSE call.index

\* C8: for each lag in 1..3, y_tm{lag} is the sentence of the record at
\* index - lag exactly when index - lag >= 0 and that record is of the unit of
\* the record at index; otherwise it is the sentence of the record at index.
\* Either way it comes from the unit of the record at index
C8_LagClamping ==
    Called("WikihowTPK") =>
        /\ call.status = "ok"
        /\ call.locals.index = WorkingIndex
        /\ \A lag \in 1..3 :
              LET index == WorkingIndex
                  inside == index - lag >= 0
                            /\ Rec(index - lag).doc_id = Rec(index).doc_id
              IN  /\ call.locals.pos_tm[lag] = (IF inside THEN index - lag ELSE index)
                  /\ LagText(call.result, lag) = Rec(call.locals.pos_tm[lag]).sentence
                  /\ Rec(call.locals.pos_tm[lag]).doc_id = Rec(index).doc_id

\* C8 witness: a windowed call whose index is the third record of a unit that
\* is not the first one: lags 1 and 2 stay inside, lag 3 falls back to index
C8_Witness ==
    /\ Called("WikihowTPK")
    /\ call.status = "ok"
    /\ call.locals.index >= 3
    /\ Rec(call.locals.index).sentence_id = 2
    /\ call.locals.pos_tm = <<call.locals.index - 1, call.locals.index - 2, call.locals.index>>

\* C9: every unit of a built dataset has at least 3 records, and every list
\* position a strategy reads, for an index below __len__(), is a position of
\* the list: none past the end, none negative
C9_ReadsInBounds ==
    /\ Built => \A p \in Positions : Rec(p).total_doc_sentences >= 3
    /\ (pc = "returned") =>
          /\ call.status # "IndexError"
          /\ \A i \in 1..Len(call.reads) : call.reads[i] \in Positions

\* C9 witness: a k = 1 windowed call at the largest index, len - 2, which
\* reads the last position of the list, len - 1
C9_Witness ==
    /\ Called("WikihowTPK")
    /\ k = 1
    /\ call.index = Len(processed_data) - 2
    /\ \E i \in 1..Len(call.reads) : call.reads[i] = Len(processed_data) - 1

\* C10: in both modes of the windowed strategy each lag sentence comes from
\* the record of y_t or from a record of the same unit before it
C10_LagsNotAfterCurrent ==
    (Called("WikihowTPK") /\ call.status = "ok") =>
        \A lag \in 1..3 :
            \/ call.locals.pos_tm[lag] = call.locals.pos_t
            \/ /\ Rec(call.locals.pos_tm[lag]).doc_id = Rec(call.locals.pos_t).doc_id
               /\ Rec(call.locals.pos_tm[lag]).sentence_id < Rec(call.locals.pos_t).sentence_id

====
